---- MODULE Spec2Model ----
(***************************************************************************)
(* Model of src/main.py: the crawl session scrape_buzzed_posts (the        *)
(* scroll / scan / accumulate / terminate loop), the per-node extraction   *)
(* parse_post with its bounded retry, and the hand-over to save_data.      *)
(*                                                                         *)
(* The browser is the environment: every call into it (find_elements,      *)
(* execute_script, the node reads of parse_post) returns a value chosen    *)
(* nondeterministically from a small set, or raises.                       *)
(***************************************************************************)
EXTENDS Integers, Sequences, FiniteSets, TLC

\* ------------------------------------------------------------ constants
\* Program constants (src/main.py).
MAX_PARSE_RETRIES == 3
MAX_SCROLL_PATIENCE == 5
LIKE_THRESHOLD == 100
max_scrolls == 50

\* Bounds of the model.
NumUrls == 2          \* distinct permalinks the feed can show
MaxArticles == 2      \* nodes in one snapshot
MaxHeight == 2        \* document extents 1..MaxHeight
MaxLimit == 2         \* limit argument 0..MaxLimit
MaxStrLen == 3        \* characters in an argument of convert_to_int

\* ------------------------------------------------------------ values
\* Permalinks a node read can give: Urls contain '/status/', AdLink (the link
\* of an ad or an embedded card) does not.
AdLink == 0
Urls == 1..NumUrls
Links == {AdLink} \cup Urls
Heights == 1..MaxHeight

\* Like counts a like control can show: just below and at the threshold.
LikeVals == {LIKE_THRESHOLD - 1, LIKE_THRESHOLD}

None == [none |-> TRUE]

NoException == "none"
NoSuchElementException == "NoSuchElementException"
StaleElementReferenceException == "StaleElementReferenceException"
OtherException == "Exception"

\* What the live node answers during one attempt of parse_post.  A node is an
\* opaque handle into a document that changes under the reader, so every
\* attempt reads afresh.
\*   identity  : outcome of reading the time element and its ancestor link
\*   permalink : the href read from the ancestor link
\*   user_name : whether div[data-testid='User-Name'] is present
\*   body      : outcome of the remaining reads (stale / driver failure)
\*   like      : 0 when the like control is absent, else the count shown
Readings ==
    [identity  : {NoException, NoSuchElementException,
                  StaleElementReferenceException, OtherException},
     permalink : Links,
     user_name : BOOLEAN,
     body      : {NoException, StaleElementReferenceException, OtherException},
     like      : {0} \cup LikeVals]

\* A snapshot is the number of article nodes find_elements returned.
Snapshots == 0..MaxArticles

VARIABLES
    pc,                 \* position in scrape_buzzed_posts
    keyword,            \* "" or a search keyword
    limit,              \* limit argument
    driver,             \* local variable driver: "none" | "open" | "quit"
    session,            \* the browser session: "none" | "open" | "released"
    collected_data,     \* sequence of accepted records
    scraped_urls,       \* set of urls seen
    last_height,
    new_height,
    patience,
    scroll_count,
    new_posts_found_in_this_scroll,
    articles,           \* number of nodes in the snapshot of the current scan
    idx,                \* position of the for loop in articles (1-based)
    attempt,            \* loop variable of parse_post
    post_data,          \* result of parse_post (None or a record)
    saved,              \* <<>> or <<data>>: what save_data was called with
    \* history variables, read by the properties only
    nScans,             \* calls of find_elements
    nScrolls,           \* scroll actions issued (scrollTo and scrollBy)
    streak,             \* trailing run of scroll steps with no change, no accept
    quietHeight,        \* start extent while the all-quiet scenario holds
    emptyScan,          \* the current iteration's snapshot was empty
    allEmpty,           \* every snapshot so far was empty
    raised,             \* exception the parse_post attempt of the latest step raised
    readKind,           \* what the node answered in that attempt (see ReadKind)
    rejected,           \* urls first offered below the threshold
    accepted,           \* urls in the order they were accepted
    \* convert_to_int, checked on its own
    conv_text,          \* its argument, a sequence of characters
    conv_result         \* its outcome, NotRun before the call

vars == <<pc, keyword, limit, driver, session, collected_data, scraped_urls, last_height,
          new_height, patience, scroll_count, new_posts_found_in_this_scroll,
          articles, idx, attempt, post_data, saved,
          nScans, nScrolls, streak, quietHeight, emptyScan, allEmpty,
          raised, readKind, rejected, accepted, conv_text, conv_result>>

crawl == <<collected_data, scraped_urls, last_height, new_height, patience,
           scroll_count, new_posts_found_in_this_scroll>>
scan == <<articles, idx, attempt, post_data>>
history == <<nScans, nScrolls, streak, quietHeight, emptyScan, allEmpty,
             rejected, accepted>>
args == <<keyword, limit>>
conv == <<conv_text, conv_result>>

\* ------------------------------------------------------------ parse_post
\* '/status/' in post_url (line 130).
HasStatusMarker(post_url) == post_url \in Urls

\* Variant: a permalink without the marker is treated as a missing element.
AttemptBody_AdRetried(r) ==
    IF r.identity # NoException
    THEN [raises |-> r.identity, returns |-> None]
    ELSE IF ~HasStatusMarker(r.permalink)
    THEN [raises |-> NoSuchElementException, returns |-> None]
    ELSE IF ~r.user_name
    THEN [raises |-> NoSuchElementException, returns |-> None]
    ELSE IF r.body # NoException
    THEN [raises |-> r.body, returns |-> None]
    ELSE [raises |-> NoException,
          returns |-> [post_url |-> r.permalink, likes |-> r.like]]

\* One pass through the try body (lines 120-228) against the reading r:
\* the exception it raises, or the value it returns.
AttemptBody(r) ==
    IF r.identity # NoException
    THEN [raises |-> r.identity, returns |-> None]
    ELSE IF ~HasStatusMarker(r.permalink)
    THEN [raises |-> NoException, returns |-> None]
    ELSE IF ~r.user_name
    THEN [raises |-> NoSuchElementException, returns |-> None]
    ELSE IF r.body # NoException
    THEN [raises |-> r.body, returns |-> None]
    ELSE [raises |-> NoException,
          returns |-> [post_url |-> r.permalink, likes |-> r.like]]

\* The case a reading is: the identity step failed or a later read did
\* ("fault"), the permalink has no '/status/' ("ad"), the identity step
\* succeeded and nothing failed, with the user-identity block absent
\* ("no_user") or present ("post").
ReadKind(r) ==
    IF r.identity # NoException THEN "fault"
    ELSE IF r.permalink \notin Urls THEN "ad"
    ELSE IF r.body # NoException THEN "fault"
    ELSE IF ~r.user_name THEN "no_user"
    ELSE "post"

\* Every outcome one attempt can have, with the case it comes from.
AttemptOutcomes == {[res |-> AttemptBody(r), kind |-> ReadKind(r)] : r \in Readings}

\* Variant: every exception is retried, not only the stale / not-found ones.
ParseHandler_RetryAny(exc, att) ==
    IF att < MAX_PARSE_RETRIES - 1 THEN "continue" ELSE "return_none"

\* The except clauses (lines 230-242): what happens to an exception raised in
\* attempt number att (0-based).
ParseHandler(exc, att) ==
    IF exc \in {NoSuchElementException, StaleElementReferenceException}
    THEN IF att < MAX_PARSE_RETRIES - 1 THEN "continue" ELSE "return_none"
    ELSE "return_none"

\* ------------------------------------------------------------ decisions
\* Variant: the ceiling test is off by one.
LoopCondition_OffByOne(n, lim, count) == n < lim /\ count <= max_scrolls

\* while condition (line 321).
LoopCondition(n, lim, count) == n < lim /\ count < max_scrolls

\* Variant: the empty snapshot is not special-cased.
IsEmptySnapshot_Never(arts) == FALSE

\* if not articles (line 331).
IsEmptySnapshot(arts) == arts = 0

\* Variant: no duplicate check.
IsDuplicate_Never(url, seen) == FALSE

\* if post_url in scraped_urls (line 350).
IsDuplicate(url, seen) == url \in seen

\* Variant: only accepted urls are recorded as seen.
SeenAfter_OnlyAccepted(seen, post) ==
    IF post.likes >= LIKE_THRESHOLD THEN seen \cup {post.post_url} ELSE seen

\* scraped_urls.add(post_url) (line 354).
SeenAfter(seen, post) == seen \cup {post.post_url}

\* Variant: strict comparison with the threshold.
MeetsThreshold_Strict(likes) == likes > LIKE_THRESHOLD

\* if likes >= LIKE_THRESHOLD (line 358).
MeetsThreshold(likes) == likes >= LIKE_THRESHOLD

\* Variant: the record is put in front.
CollectedAfter_Prepend(data, post) == <<post>> \o data

\* collected_data.append(post_data) (line 359).
CollectedAfter(data, post) == Append(data, post)

\* Variant: the scan goes on until the limit is exceeded.
LimitReachedInScan_Strict(n, lim) == n > lim

\* if len(collected_data) >= limit: break, inside the for loop (line 364).
LimitReachedInScan(n, lim) == n >= lim

\* Variant: no test after the for loop, the while condition alone ends the crawl.
TargetReached_Never(n, lim) == FALSE

\* if len(collected_data) >= limit: break, after the for loop (line 373).
TargetReached(n, lim) == n >= lim

\* Variant: an accepted post does not reset patience while the height stays.
PatienceAfter_NoResetOnFound(p, h, last, found) ==
    IF h = last
    THEN IF ~found THEN p + 1 ELSE p
    ELSE 0

\* patience after the height comparison (lines 390-405).
PatienceAfter(p, h, last, found) ==
    IF h = last
    THEN IF ~found THEN p + 1 ELSE 0
    ELSE 0

\* Variant: the extent read is never recorded.
LastHeightAfter_Never(h, last) == last

\* last_height after the height comparison (lines 390-405).
LastHeightAfter(h, last) == IF h = last THEN last ELSE h

\* Variant: strict comparison with the patience limit.
PatienceExhausted_Strict(p, h, last, found) ==
    h = last /\ ~found /\ p > MAX_SCROLL_PATIENCE

\* if patience >= MAX_SCROLL_PATIENCE: break (line 396), reached only when the
\* height is unchanged and no new post was found.
PatienceExhausted(p, h, last, found) ==
    h = last /\ ~found /\ p >= MAX_SCROLL_PATIENCE

\* ------------------------------------------------------------ convert_to_int
\* Texts are sequences of characters.  Man stands for the character U+4E07
\* (ten thousand) of line 91, Inf and Nan for the words "inf" and "nan",
\* INF and NAN for their upper-case forms.
Man == "man"
Inf == "inf"
Nan == "nan"
Digits == {"1", "5"}
Chars == Digits \cup {".", ",", "-", " ", "K", "k", "M", "x", Man, Inf, Nan}
ConvInputs == UNION {[1..n -> Chars] : n \in 0..MaxStrLen}

ValueError == "ValueError"
OverflowError == "OverflowError"
NotRun == [raises |-> "not run", returns |-> 0]
Returns(v) == [raises |-> NoException, returns |-> v]
Raises(exc) == [raises |-> exc, returns |-> 0]

\* str.strip(): leading and trailing whitespace removed.
RECURSIVE strip(_)
strip(t) ==
    IF t = <<>> THEN t
    ELSE IF Head(t) = " " THEN strip(Tail(t))
    ELSE IF t[Len(t)] = " " THEN strip(SubSeq(t, 1, Len(t) - 1))
    ELSE t

\* str.replace(c, ''): every occurrence of the character removed.
Without(t, c) == SelectSeq(t, LAMBDA x : x # c)

\* str.upper().
UpperChar(c) ==
    CASE c = "k" -> "K"
      [] c = "x" -> "X"
      [] c = Inf -> "INF"
      [] c = Nan -> "NAN"
      [] OTHER -> c
upper(t) == [i \in 1..Len(t) |-> UpperChar(t[i])]

\* c in text.
Contains(t, c) == \E i \in 1..Len(t) : t[i] = c

\* The integer a string of decimal digits denotes.
RECURSIVE DigitsValue(_)
DigitsValue(t) ==
    IF t = <<>> THEN 0
    ELSE 10 * DigitsValue(SubSeq(t, 1, Len(t) - 1))
         + (IF t[Len(t)] = "1" THEN 1 ELSE 5)

RECURSIVE Pow10(_)
Pow10(n) == IF n = 0 THEN 1 ELSE 10 * Pow10(n - 1)

\* float(text): surrounding whitespace is ignored, then an optional sign,
\* then inf or nan in any case, or digits with at most one point and at
\* least one digit; anything else raises ValueError.  A finite value is
\* mant / 10^frac, negated when neg.
float(t) ==
    LET s    == strip(t)
        neg  == s # <<>> /\ Head(s) = "-"
        body == IF neg THEN Tail(s) ELSE s
        dot  == {i \in 1..Len(body) : body[i] = "."}
        digs == Without(body, ".")
    IN  IF body \in {<<Inf>>, <<"INF">>}
        THEN [raises |-> NoException, kind |-> "inf", neg |-> neg, mant |-> 0, frac |-> 0]
        ELSE IF body \in {<<Nan>>, <<"NAN">>}
        THEN [raises |-> NoException, kind |-> "nan", neg |-> neg, mant |-> 0, frac |-> 0]
        ELSE IF /\ digs # <<>>
                /\ \A i \in 1..Len(digs) : digs[i] \in Digits
                /\ Cardinality(dot) <= 1
        THEN [raises |-> NoException, kind |-> "finite", neg |-> neg,
              mant |-> DigitsValue(digs),
              frac |-> IF dot = {} THEN 0
                       ELSE Len(body) - (CHOOSE i \in dot : TRUE)]
        ELSE [raises |-> ValueError, kind |-> "none", neg |-> FALSE, mant |-> 0, frac |-> 0]

\* int(float(text) * factor) inside try ... except ValueError: return 0
\* (lines 90-103).  float() raising ValueError and int(nan) raising
\* ValueError are caught; int(inf) raises OverflowError, which is not.
\* int() truncates toward zero.
ScaledInt(t, factor) ==
    LET num == float(t)
        q   == (num.mant * factor) \div Pow10(num.frac)
    IN  CASE num.raises = ValueError -> Returns(0)
          [] num.kind = "nan" -> Returns(0)
          [] num.kind = "inf" -> Raises(OverflowError)
          [] OTHER -> Returns(IF num.neg THEN 0 - q ELSE q)

\* int(re.sub(r'\D', '', text)) inside the same try (line 101).
DigitsOnlyInt(t) ==
    LET digs == SelectSeq(t, LAMBDA x : x \in Digits)
    IN  IF digs = <<>> THEN Returns(0) ELSE Returns(DigitsValue(digs))

\* convert_to_int(text) (lines 75-103).
ConvertToInt(text) ==
    IF text = <<>> THEN Returns(0)
    ELSE LET t == Without(strip(text), ",")
         IN  IF Contains(t, Man) THEN ScaledInt(Without(t, Man), 10000)
             ELSE IF Contains(upper(t), "K")
                  THEN ScaledInt(Without(upper(t), "K"), 1000)
             ELSE IF Contains(upper(t), "M")
                  THEN ScaledInt(Without(upper(t), "M"), 1000000)
             ELSE DigitsOnlyInt(t)

\* ------------------------------------------------------------ initial state
\* Nothing has run yet: the locals of scrape_buzzed_posts and the history.
Fresh ==
    /\ driver = "none"
    /\ session = "none"
    /\ collected_data = <<>>
    /\ scraped_urls = {}
    /\ last_height = 0
    /\ new_height = 0
    /\ patience = 0
    /\ scroll_count = 0
    /\ new_posts_found_in_this_scroll = FALSE
    /\ articles = 0
    /\ idx = 0
    /\ attempt = 0
    /\ post_data = None
    /\ saved = <<>>
    /\ nScans = 0
    /\ nScrolls = 0
    /\ streak = 0
    /\ quietHeight = 0
    /\ emptyScan = FALSE
    /\ allEmpty = TRUE
    /\ raised = NoException
    /\ readKind = "none"
    /\ rejected = {}
    /\ accepted = <<>>
    /\ conv_result = NotRun

\* main() calls scrape_buzzed_posts(keyword, limit) (lines 421-455).
Init ==
    /\ pc = "start"
    /\ keyword \in {"", "kw"}
    /\ limit \in 0..MaxLimit
    /\ conv_text = <<>>
    /\ Fresh

\* convert_to_int(text) called on its own with any text of the alphabet.
ConvInit ==
    /\ pc = "convert"
    /\ keyword = "kw"
    /\ limit = 1
    /\ conv_text \in ConvInputs
    /\ Fresh

\* ------------------------------------------------------------ actions
\* if not keyword: return (lines 295-297).
CheckKeyword ==
    /\ pc = "start"
    /\ pc' = IF keyword = "" THEN "done" ELSE "setup"
    /\ UNCHANGED <<args, conv, driver, session, crawl, scan, saved, history>>
    /\ raised' = NoException
    /\ readKind' = "none"

\* driver = setup_driver() (lines 305, 67-73).  webdriver.Chrome(...) may
\* raise before a session exists; driver.maximize_window() may raise after
\* the session was created, and then nothing is returned to the caller.
setup_driver ==
    /\ pc = "setup"
    /\ \/ session' = "open" /\ driver' = "open" /\ pc' = "get"
       \/ session' = session /\ driver' = driver /\ pc' = "except"
       \/ session' = "open" /\ driver' = driver /\ pc' = "except"
    /\ UNCHANGED <<args, conv, crawl, scan, saved, history>>
    /\ raised' = NoException
    /\ readKind' = "none"

\* driver.get(search_url) (lines 306-308).
OpenSearchPage ==
    /\ pc = "get"
    /\ pc' = "init"
    /\ UNCHANGED <<args, conv, driver, session, crawl, scan, saved, history>>
    /\ raised' = NoException
    /\ readKind' = "none"

\* Session state is created and the start extent is read (lines 310-319).
InitSession ==
    /\ pc = "init"
    /\ \E h \in Heights :
         /\ last_height' = h
         /\ quietHeight' = h
    /\ collected_data' = <<>>
    /\ scraped_urls' = {}
    /\ patience' = 0
    /\ scroll_count' = 0
    /\ pc' = "while"
    /\ UNCHANGED <<args, conv, driver, session, new_height, new_posts_found_in_this_scroll,
                   scan, saved, nScans, nScrolls, streak, emptyScan, allEmpty, rejected, accepted>>
    /\ raised' = NoException
    /\ readKind' = "none"

\* while test and the head of the loop body (lines 321-326).
WhileTest ==
    /\ pc = "while"
    /\ IF LoopCondition(Len(collected_data), limit, scroll_count)
       THEN /\ scroll_count' = scroll_count + 1
            /\ new_posts_found_in_this_scroll' = FALSE
            /\ pc' = "find"
       ELSE /\ pc' = "save"
            /\ UNCHANGED <<scroll_count, new_posts_found_in_this_scroll>>
    /\ emptyScan' = FALSE
    /\ UNCHANGED <<args, conv, driver, session, collected_data, scraped_urls, last_height,
                   new_height, patience, scan, saved, nScans, nScrolls, streak,
                   quietHeight, allEmpty, rejected, accepted>>
    /\ raised' = NoException
    /\ readKind' = "none"

\* for article in articles (line 339): go on with the node after idx, or
\* leave the loop when there is none.
ForStep(i, n) ==
    /\ attempt' = 0
    /\ IF i + 1 <= n
       THEN pc' = "parse" /\ idx' = i + 1 /\ articles' = n
       ELSE pc' = "decide" /\ idx' = 0 /\ articles' = 0

\* Variant: a node that is passed over ends the for loop.
ForContinue_Stops ==
    /\ attempt' = 0
    /\ pc' = "decide"
    /\ idx' = 0
    /\ articles' = 0

ForContinue == ForStep(idx, articles)

\* break out of the for loop (line 365): the nodes after idx stay unread.
ForBreak ==
    /\ attempt' = 0
    /\ pc' = "decide"
    /\ UNCHANGED <<articles, idx>>

\* articles = driver.find_elements(...) and the test for an empty snapshot
\* (lines 329-332); a non-empty snapshot enters the for loop at its first node.
find_elements ==
    /\ pc = "find"
    /\ \E snap \in Snapshots :
         /\ IF IsEmptySnapshot(snap)
            THEN pc' = "empty" /\ idx' = 0 /\ articles' = snap /\ attempt' = 0
            ELSE ForStep(0, snap)
         /\ emptyScan' = (snap = 0)
         /\ allEmpty' = (allEmpty /\ snap = 0)
         /\ quietHeight' = IF snap = 0 THEN 0 ELSE quietHeight
    /\ nScans' = nScans + 1
    /\ UNCHANGED <<args, conv, driver, session, crawl, post_data, saved, nScrolls,
                   streak, rejected, accepted>>
    /\ raised' = NoException
    /\ readKind' = "none"

\* The scroll of the empty-snapshot path, then continue (lines 333-337).
EmptyScanScroll ==
    /\ pc = "empty"
    /\ nScrolls' = nScrolls + 1
    /\ pc' = "while"
    /\ UNCHANGED <<args, conv, driver, session, crawl, scan, saved, nScans, streak,
                   quietHeight, emptyScan, allEmpty, rejected, accepted>>
    /\ raised' = NoException
    /\ readKind' = "none"

\* One attempt of parse_post on the node at idx (lines 118-244).  A returned
\* record goes on to the duplicate check; None continues the for loop
\* (lines 343-344); an exception leaving parse_post would reach the handler
\* of scrape_buzzed_posts.
parse_post ==
    /\ pc = "parse"
    /\ \E o \in AttemptOutcomes :
         LET res == o.res
             todo == IF res.raises = NoException
                     THEN "return"
                     ELSE ParseHandler(res.raises, attempt)
         IN  /\ raised' = res.raises
             /\ readKind' = o.kind
             /\ CASE todo = "continue" /\ attempt + 1 < MAX_PARSE_RETRIES ->
                       /\ attempt' = attempt + 1
                       /\ pc' = "parse"
                       /\ UNCHANGED <<articles, idx, post_data>>
                  [] todo = "return" /\ res.returns # None ->
                       /\ post_data' = res.returns
                       /\ pc' = "offer"
                       /\ attempt' = 0
                       /\ UNCHANGED <<articles, idx>>
                  [] todo = "propagate" ->
                       /\ pc' = "except"
                       /\ UNCHANGED <<articles, idx, attempt, post_data>>
                  [] OTHER ->
                       /\ post_data' = None
                       /\ ForContinue
    /\ UNCHANGED <<args, conv, driver, session, crawl, saved, nScans, nScrolls,
                   streak, quietHeight, emptyScan, allEmpty, rejected, accepted>>

\* Duplicate check, recording of the url, threshold check, append and the
\* break at the limit (lines 346-365).
Offer ==
    /\ pc = "offer"
    /\ IF IsDuplicate(post_data.post_url, scraped_urls)
       THEN /\ ForContinue
            /\ UNCHANGED <<crawl, quietHeight, rejected, accepted>>
       ELSE /\ scraped_urls' = SeenAfter(scraped_urls, post_data)
            /\ IF MeetsThreshold(post_data.likes)
               THEN /\ collected_data' = CollectedAfter(collected_data, post_data)
                    /\ new_posts_found_in_this_scroll' = TRUE
                    /\ accepted' = Append(accepted, post_data.post_url)
                    /\ quietHeight' = 0
                    /\ UNCHANGED rejected
                    /\ IF LimitReachedInScan(Len(collected_data'), limit)
                       THEN ForBreak
                       ELSE ForContinue
               ELSE /\ rejected' = rejected \cup {post_data.post_url}
                    /\ ForContinue
                    /\ UNCHANGED <<collected_data, accepted,
                                   new_posts_found_in_this_scroll, quietHeight>>
            /\ UNCHANGED <<last_height, new_height, patience, scroll_count>>
    /\ post_data' = None
    /\ raised' = NoException
    /\ readKind' = "none"
    /\ UNCHANGED <<args, conv, driver, session, saved, nScans, nScrolls, streak, emptyScan, allEmpty>>

\* After the for loop: stop when the target is reached (lines 368-375).
Decide ==
    /\ pc = "decide"
    /\ pc' = IF TargetReached(Len(collected_data), limit) THEN "save" ELSE "scroll"
    /\ UNCHANGED <<args, conv, driver, session, crawl, scan, saved, history>>
    /\ raised' = NoException
    /\ readKind' = "none"

\* The incremental scroll step: scrollBy, read of the new extent, and the
\* patience bookkeeping (lines 378-405).
ScrollStep ==
    /\ pc = "scroll"
    /\ \E h \in Heights :
         /\ new_height' = h
         /\ patience' = PatienceAfter(patience, h, last_height,
                                      new_posts_found_in_this_scroll)
         /\ last_height' = LastHeightAfter(h, last_height)
         /\ pc' = IF PatienceExhausted(patience', h, last_height,
                                       new_posts_found_in_this_scroll)
                  THEN "save" ELSE "while"
         /\ streak' = IF h # last_height \/ new_posts_found_in_this_scroll
                      THEN 0 ELSE streak + 1
         /\ quietHeight' = IF h = quietHeight THEN quietHeight ELSE 0
    /\ nScrolls' = nScrolls + 1
    /\ UNCHANGED <<args, conv, driver, session, collected_data, scraped_urls, scroll_count,
                   new_posts_found_in_this_scroll, scan, saved, nScans,
                   emptyScan, allEmpty, rejected, accepted>>
    /\ raised' = NoException
    /\ readKind' = "none"

\* A browser call raises (driver.get, execute_script, find_elements): control
\* goes to the except clause of line 413.  In the scroll step the exception
\* may come before or after scrollBy was issued.
BrowserRaises ==
    /\ pc \in {"get", "init", "find", "empty", "scroll"}
    /\ pc' = "except"
    /\ \/ UNCHANGED nScrolls
       \/ pc = "scroll" /\ nScrolls' = nScrolls + 1
    /\ quietHeight' = 0
    /\ UNCHANGED <<args, conv, driver, session, crawl, scan, saved, nScans, streak, emptyScan, allEmpty,
                   rejected, accepted>>
    /\ raised' = NoException
    /\ readKind' = "none"

\* save_data(collected_data, ...) (lines 410-411, 246-284).  With data to
\* write, os.makedirs / DataFrame may raise outside save_data's own try.
save_data ==
    /\ pc = "save"
    /\ saved' = <<collected_data>>
    /\ \/ pc' = "finally"
       \/ collected_data # <<>> /\ pc' = "except"
    /\ UNCHANGED <<args, conv, driver, session, crawl, scan, history>>
    /\ raised' = NoException
    /\ readKind' = "none"

\* except Exception (lines 413-414).
ExceptClause ==
    /\ pc = "except"
    /\ pc' = "finally"
    /\ UNCHANGED <<args, conv, driver, session, crawl, scan, saved, history>>
    /\ raised' = NoException
    /\ readKind' = "none"

\* finally: if driver: driver.quit() (lines 415-418).
FinallyClause ==
    /\ pc = "finally"
    /\ driver' = IF driver = "open" THEN "quit" ELSE driver
    /\ session' = IF driver = "open" THEN "released" ELSE session
    /\ pc' = "done"
    /\ UNCHANGED <<args, conv, crawl, scan, saved, history>>
    /\ raised' = NoException
    /\ readKind' = "none"

Next ==
    \/ CheckKeyword
    \/ setup_driver
    \/ OpenSearchPage
    \/ InitSession
    \/ WhileTest
    \/ find_elements
    \/ EmptyScanScroll
    \/ parse_post
    \/ Offer
    \/ Decide
    \/ ScrollStep
    \/ BrowserRaises
    \/ save_data
    \/ ExceptClause
    \/ FinallyClause

Spec == Init /\ [][Next]_vars

\* One call of convert_to_int.
convert_to_int ==
    /\ pc = "convert"
    /\ conv_result' = ConvertToInt(conv_text)
    /\ pc' = "converted"
    /\ UNCHANGED <<args, conv_text, driver, session, crawl, scan, saved, history,
                   raised, readKind>>

ConvNext == convert_to_int

ConvSpec == ConvInit /\ [][ConvNext]_vars

\* ------------------------------------------------------------ properties
CollectedUrls == {collected_data[i].post_url : i \in 1..Len(collected_data)}
UrlsInOrder == [i \in 1..Len(collected_data) |-> collected_data[i].post_url]
LoopLeft == pc \in {"save", "except", "finally", "done"}

\* C1: no two records of collected_data have the same post_url, in every
\* reachable state, whatever the snapshots and like counts the feed returns.
C1_UniqueUrls ==
    \A i, j \in 1..Len(collected_data) :
        collected_data[i].post_url = collected_data[j].post_url => i = j

\* A url that is already collected is offered again on a later scan.
C1_Witness ==
    /\ pc = "offer"
    /\ nScans >= 2
    /\ Len(collected_data) = 1
    /\ post_data.post_url = collected_data[1].post_url
    /\ MeetsThreshold(post_data.likes)

\* C2: for limit >= 1, collected_data is never longer than limit, and once
\* its length equals limit no step changes it.
C2_LengthBound ==
    /\ [](limit >= 1 => Len(collected_data) <= limit)
    /\ [][limit >= 1 /\ Len(collected_data) = limit
            => collected_data' = collected_data]_vars

\* The limit was reached in the middle of a snapshot, and the crawl has ended.
C2_Witness ==
    /\ pc = "done"
    /\ limit = MaxLimit
    /\ Len(collected_data) = limit
    /\ idx < articles

\* C3: a record with a new url is appended exactly when its likes are at
\* least LIKE_THRESHOLD and there is room; every collected record has
\* likes >= LIKE_THRESHOLD.
C3_ThresholdAccept ==
    /\ [](\A i \in 1..Len(collected_data) :
             collected_data[i].likes >= LIKE_THRESHOLD)
    /\ [][pc = "offer" /\ post_data.post_url \notin scraped_urls
            => collected_data' =
                 IF post_data.likes >= LIKE_THRESHOLD
                    /\ Len(collected_data) < limit
                 THEN Append(collected_data, post_data)
                 ELSE collected_data]_vars

\* A new url is offered with threshold - 1 likes after a record with exactly
\* threshold likes was accepted.
C3_Witness ==
    /\ pc = "offer"
    /\ post_data.post_url \notin scraped_urls
    /\ post_data.likes = LIKE_THRESHOLD - 1
    /\ Len(collected_data) = 1
    /\ collected_data[1].likes = LIKE_THRESHOLD

\* C4: every offered url is in scraped_urls after the offer, also when the
\* record fails the threshold; a url first offered below the threshold is
\* never in collected_data.
C4_RejectedStaysOut ==
    /\ [](rejected \subseteq scraped_urls /\ rejected \cap CollectedUrls = {})
    /\ [][pc = "offer" => post_data.post_url \in scraped_urls']_vars

\* A url first offered below the threshold re-appears with enough likes while
\* there is room.
C4_Witness ==
    /\ pc = "offer"
    /\ post_data.post_url \in rejected
    /\ post_data.likes >= LIKE_THRESHOLD
    /\ Len(collected_data) < limit

\* Variant function of the crawl: a natural number that every step decreases.
PositionRank ==
    CASE pc = "find"   -> 4 + (MaxArticles + 1) * (MAX_PARSE_RETRIES + 1)
      [] pc = "parse"  -> 4 + (MaxArticles - idx) * (MAX_PARSE_RETRIES + 1)
                            + (MAX_PARSE_RETRIES - attempt)
      [] pc = "offer"  -> 4 + (MaxArticles - idx) * (MAX_PARSE_RETRIES + 1)
      [] pc = "decide" -> 3
      [] pc = "scroll" -> 2
      [] pc = "empty"  -> 2
      [] pc = "while"  -> 1
      [] OTHER         -> 0
IterationRank == 5 + (MaxArticles + 1) * (MAX_PARSE_RETRIES + 1)
Rank ==
    CASE pc = "done"    -> 0
      [] pc = "finally" -> 1
      [] pc = "except"  -> 2
      [] pc = "save"    -> 3
      [] pc = "start"   -> 8 + (max_scrolls + 1) * IterationRank
      [] pc = "setup"   -> 7 + (max_scrolls + 1) * IterationRank
      [] pc = "get"     -> 6 + (max_scrolls + 1) * IterationRank
      [] pc = "init"    -> 5 + (max_scrolls + 1) * IterationRank
      [] OTHER -> 3 + (max_scrolls - scroll_count) * IterationRank + PositionRank

\* C5: whatever the feed does, the crawl terminates: until it is done a step
\* is always possible and every step decreases the natural number Rank, so
\* every run in which each browser call returns reaches pc = "done"; it makes
\* at most max_scrolls scans and at most max_scrolls scroll actions.
C5_Terminates ==
    /\ [](Rank \in Nat /\ (pc # "done" => ENABLED Next))
    /\ [](nScans <= max_scrolls /\ nScrolls <= max_scrolls)
    /\ [][Rank' < Rank]_vars

\* The ceiling ends an unbroken run of empty snapshots.
C5_Witness ==
    /\ pc = "done"
    /\ allEmpty
    /\ nScans = max_scrolls
    /\ nScrolls = max_scrolls

\* C6: while every scan was non-empty with no post accepted and every extent
\* read equalled the start extent, the loop has been left exactly when
\* MAX_SCROLL_PATIENCE scroll steps were made, with as many scans.
C6_ExhaustedAtLimit ==
    limit >= 1 /\ quietHeight # 0 =>
        /\ last_height = quietHeight
        /\ patience = nScrolls
        /\ nScrolls <= MAX_SCROLL_PATIENCE
        /\ LoopLeft <=> nScrolls = MAX_SCROLL_PATIENCE
        /\ LoopLeft => nScans = MAX_SCROLL_PATIENCE /\ pc # "except"

\* The all-quiet crawl has ended.
C6_Witness ==
    /\ quietHeight # 0
    /\ limit >= 1
    /\ pc = "done"
    /\ nScrolls = MAX_SCROLL_PATIENCE

C8_TargetReached ==
    /\ [](limit >= 1 /\ Len(collected_data) >= limit =>
            /\ pc \in {"decide", "save", "except", "finally", "done"}
            /\ Len(collected_data) = limit
            /\ UrlsInOrder = accepted
            /\ saved \in {<<>>, <<collected_data>>}
            /\ pc \in {"finally", "done"} => saved = <<collected_data>>)
    /\ [][limit >= 1 /\ Len(collected_data) >= limit =>
            UNCHANGED <<collected_data, scroll_count, nScans, nScrolls>>]_vars

\* Two records were accepted, the second one before the last node of its
\* snapshot, and the crawl is done.
C8_Witness ==
    /\ pc = "done"
    /\ limit = 2
    /\ Len(collected_data) = 2
    /\ idx < articles
    /\ saved = <<collected_data>>

\* C9: from the empty snapshot to the next while test patience, last_height,
\* scraped_urls, collected_data and the iteration count stay as they are;
\* the scan has used one unit of the ceiling (scans made = iterations
\* started), exactly one scroll action is issued and no further scan is
\* made, and the loop goes on to the next scan unless the ceiling is reached.
C9_EmptyScanFrame ==
    /\ [](emptyScan => /\ pc \in {"empty", "while", "except", "finally", "done"}
                       /\ nScans = scroll_count)
    /\ [][emptyScan' => UNCHANGED <<patience, last_height, scraped_urls,
                                    collected_data, scroll_count, streak>>]_vars
    /\ [][emptyScan /\ pc = "empty" /\ pc' # "except"
            => pc' = "while" /\ nScrolls' = nScrolls + 1 /\ nScans' = nScans]_vars
    /\ [][emptyScan /\ pc = "while"
            => pc' = IF scroll_count < max_scrolls THEN "find" ELSE "save"]_vars

\* An empty snapshot arrives while patience is running.
C9_Witness ==
    /\ emptyScan
    /\ pc = "while"
    /\ patience = MAX_SCROLL_PATIENCE - 1

\* C10: parse_post makes at most MAX_PARSE_RETRIES attempts on a node; it
\* retries only after a stale / not-found exception and only while fewer
\* than MAX_PARSE_RETRIES attempts were made; the last such failure and any
\* other exception give None at once; no exception leaves parse_post.
C10_BoundedRetry ==
    /\ [](attempt < MAX_PARSE_RETRIES)
    /\ [][pc = "parse" =>
            /\ pc' \in {"parse", "offer", "decide"}
            /\ (pc' = "parse" /\ idx' = idx) =>
                  /\ attempt' = attempt + 1
                  /\ attempt' < MAX_PARSE_RETRIES
                  /\ raised' \in {NoSuchElementException,
                                  StaleElementReferenceException}
            /\ (raised' = OtherException
                \/ (raised' # NoException /\ attempt = MAX_PARSE_RETRIES - 1)) =>
                  /\ post_data' = None
                  /\ pc' = "decide" \/ (pc' = "parse" /\ idx' = idx + 1)]_vars

\* The third attempt on a node is about to be made after two stale reads.
C10_Witness ==
    /\ pc = "parse"
    /\ attempt = MAX_PARSE_RETRIES - 1
    /\ raised = StaleElementReferenceException

\* C11: an attempt that reads a permalink without '/status/' ends parse_post
\* at once with None: no exception, no retry of the node, the node is not
\* offered, and scraped_urls and collected_data stay as they were.
C11_AdSkippedAtOnce ==
    [][pc = "parse" /\ readKind' = "ad"
         => /\ raised' = NoException
            /\ post_data' = None
            /\ attempt' = 0
            /\ IF idx < articles
               THEN pc' = "parse" /\ idx' = idx + 1
               ELSE pc' = "decide"
            /\ UNCHANGED <<scraped_urls, collected_data>>]_vars

C11_Witness ==
    /\ readKind = "ad"
    /\ pc = "parse"
    /\ idx = 2
    /\ scraped_urls = {}

\* C12 as stated: when the identity step of an attempt succeeds and no read
\* fails otherwise, parse_post returns a record from that attempt, whether
\* or not the optional user-identity block is present.
C12_OptionalNeverAborts ==
    readKind \in {"post", "no_user"} => pc = "offer" /\ post_data # None

\* C13 as stated: when scrape_buzzed_posts is over, the records collected
\* were handed to save_data.
C13_SavedAtExit ==
    pc = "done" /\ collected_data # <<>> => saved = <<collected_data>>

\* C14 as stated: when scrape_buzzed_posts is over, a browser session that
\* was created has been released.
C14_SessionReleased ==
    pc = "done" /\ session # "none" => session = "released"

\* C15 as stated: with an empty keyword or a limit that is not positive, no
\* browser session is created, nothing is scanned or scrolled and no record
\* is persisted.
C15_ValidatedBeforeSession ==
    keyword = "" \/ limit <= 0
        => /\ session = "none"
           /\ nScans = 0
           /\ nScrolls = 0
           /\ saved \in {<<>>, << <<>> >>}

\* C16 as stated: convert_to_int never raises and returns an integer >= 0.
C16_TotalNonNegative ==
    pc = "converted"
        => conv_result.raises = NoException /\ conv_result.returns >= 0

\* C17: no step removes a url from scraped_urls, and the value of
\* collected_data before a step is a prefix of its value after the step.
C17_GrowOnly ==
    [][/\ scraped_urls \subseteq scraped_urls'
       /\ Len(collected_data) <= Len(collected_data')
       /\ SubSeq(collected_data', 1, Len(collected_data)) = collected_data]_vars

C17_Witness ==
    /\ Len(collected_data) = 2
    /\ pc = "decide"
    /\ rejected = {}

\* C18 as stated: after a scroll step that leaves the crawl running (control
\* is back at the while test) the feed is scanned again.
C18_ScanAfterScroll ==
    [][pc = "while" /\ nScrolls >= 1 => pc' = "find"]_vars

\* C19: an incremental scroll step leaves last_height equal to the extent it
\* read, and resets patience when that extent differs from the last_height
\* it found; the empty-snapshot path changes neither last_height nor patience.
C19_ExtentRecorded ==
    /\ [][pc = "scroll" /\ pc' \in {"while", "save"}
            => /\ last_height' = new_height'
               /\ (new_height' # last_height => patience' = 0)]_vars
    /\ [][pc = "empty" => UNCHANGED <<last_height, new_height, patience>>]_vars

C19_Witness ==
    /\ pc = "while"
    /\ ~emptyScan
    /\ ~new_posts_found_in_this_scroll
    /\ allEmpty = FALSE
    /\ nScrolls > nScans - 1
    /\ patience = 0
    /\ last_height = 1
    /\ new_height = 1
    /\ streak = 0
    /\ nScrolls >= 3

\* C20: when parse_post returns None for a node, scraped_urls and
\* collected_data stay as they were and the for loop goes on with the next
\* node of the snapshot (or ends when there is none); every url of
\* collected_data is in scraped_urls.
C20_AbsentIsSkipped ==
    /\ [][pc = "parse" /\ pc' \in {"parse", "decide"} /\ attempt' = 0
            => /\ post_data' = None
               /\ UNCHANGED <<scraped_urls, collected_data>>
               /\ IF idx < articles
                  THEN pc' = "parse" /\ idx' = idx + 1
                  ELSE pc' = "decide"]_vars
    /\ [](CollectedUrls \subseteq scraped_urls)

C20_Witness ==
    /\ pc = "parse"
    /\ idx = 2
    /\ attempt = 0
    /\ raised = StaleElementReferenceException
    /\ Len(collected_data) = 1
    /\ scraped_urls = CollectedUrls

====
